---- MODULE Spec2Model ----
(***************************************************************************)
(* RobinHoodBot (robinhood_bot.py): order submission, the open-order       *)
(* registry (self.open_orders), reconciliation against the brokerage       *)
(* (update_open_orders), cancellation and the market-hours gate.           *)
(*                                                                         *)
(* The brokerage (robin_stocks) is the environment.  Its data are the      *)
(* gw_* variables; the bot's fields are stocks, open_orders, portfolio and *)
(* portfolio_symbols.  The variables op, req, outcome, ret, calls, log and *)
(* pre record the last step: for a method call its name and arguments, how *)
(* it ended, what it returned, the gateway calls it made, the lines it     *)
(* printed and the registry as it was when the call began; a step of the   *)
(* brokerage or of the clock leaves the record blank.                      *)
(***************************************************************************)
EXTENDS Integers, Sequences, FiniteSets, TLC

VARIABLES
    session,            \* "Unauthenticated" until __init__ has run, then "Ready"
    stocks,             \* self.stocks
    open_orders,        \* self.open_orders: a dict, kept in insertion order
    portfolio,          \* self.portfolio
    portfolio_symbols,  \* self.portfolio_symbols
    gw_orders,          \* brokerage: order id -> the order it holds, or NoOrder
    gw_watchlist,       \* brokerage: symbols of the watchlist
    gw_holdings,        \* brokerage: symbols build_holdings() reports
    gw_positions,       \* brokerage: what get_open_stock_positions() reports
    now,                \* wall clock: [dow, utc (seconds of the UTC day), dst]
    op, req, outcome, ret, calls, log, pre,
    resp,               \* what the brokerage answered the last placement call
    streak,             \* completed update_open_orders calls in a row, with no
                        \* other call and no brokerage change since (up to 2)
    scan                \* the steps of the last update_open_orders call, in the
                        \* order the code takes them: queries, prints, deletions

vars == <<session, stocks, open_orders, portfolio, portfolio_symbols,
          gw_orders, gw_watchlist, gw_holdings, gw_positions, now,
          op, req, outcome, ret, calls, log, pre, resp, streak, scan>>

----------------------------------------------------------------------------
(* Bounds of the model. *)

MaxOrders == 3          \* order identifiers the brokerage hands out: 1..MaxOrders
Scale == 2              \* numbers are counted in units of 1/Scale (1.5 is 3)

OrderIds == 1 .. MaxOrders
Symbols == {"SOFI", "AAPL"}

----------------------------------------------------------------------------
(* Python values. *)

None == [t |-> "None"]
Num(n) == [t |-> "num", v |-> n]
IntVal(n) == [t |-> "int", v |-> n]
Bool(b) == [t |-> "bool", v |-> b]
IsNone(x) == x.t = "None"

\* int(x): truncation toward zero, on a number counted in units of 1/Scale
PyInt(x) ==
    IF x.v >= 0 THEN Num((x.v \div Scale) * Scale)
                ELSE Num(0 - (((0 - x.v) \div Scale) * Scale))

\* a dict is the sequence of its items [k, v] in insertion order
EmptyDict == << >>
DictKeys(d) == [i \in 1 .. Len(d) |-> d[i].k]
DictKeySet(d) == {d[i].k : i \in 1 .. Len(d)}
DictHas(d, key) == key \in DictKeySet(d)
DictLookup(d, key) == d[CHOOSE i \in 1 .. Len(d) : d[i].k = key].v
DictLen(d) == Len(d)
\* d[key] = val: a new key goes last, a key already present keeps its place
DictSet(d, key, val) ==
    IF DictHas(d, key)
    THEN [i \in 1 .. Len(d) |-> IF d[i].k = key THEN [k |-> key, v |-> val] ELSE d[i]]
    ELSE Append(d, [k |-> key, v |-> val])
\* del d[key], for a key that is present
DictDel(d, key) == SelectSeq(d, LAMBDA e : e.k # key)

\* r[key] = val on a record (a dict with string keys)
RecSet(r, key, val) ==
    [f \in (DOMAIN r) \cup {key} |-> IF f = key THEN val ELSE r[f]]

\* how a call ended: it returned, or it raised
Ok == [kind |-> "ok", msg |-> ""]
Error(kind, msg) == [kind |-> kind, msg |-> msg]

Call(fn, arg) == [fn |-> fn, arg |-> arg]
NoCall == Call("none", None)
Line(msg, id, info) == [msg |-> msg, id |-> id, info |-> info]

----------------------------------------------------------------------------
(* The brokerage. *)

NonTerminal == {"queued", "partially_filled"}
Terminal == {"filled", "cancelled", "rejected"}
GwStates == NonTerminal \cup Terminal
NewOrderState == "queued"

NoOrder == [state |-> "none", symbol |-> "none"]
GwKnown(i) == i \in OrderIds /\ gw_orders[i] # NoOrder
GwOpen(i) == i \in OrderIds /\ gw_orders[i].state \in NonTerminal

\* an instrument URL, and rh.get_instrument_by_url(url)
Instrument(symbol) == [url |-> symbol]
GwInstrument(url) == [symbol |-> url.url]

\* the order object the brokerage returns for order i
GwOrderDict(i) ==
    [id |-> i, state |-> gw_orders[i].state, instrument |-> Instrument(gw_orders[i].symbol)]

\* rh.get_stock_order_info(order_id)
GwOrderInfo(i) ==
    IF gw_orders[i].state = "rejected"
    THEN [id |-> i, state |-> "rejected", reject_reason |-> "reason"]
    ELSE [id |-> i, state |-> gw_orders[i].state, reject_reason |-> "null"]

\* identifiers are opaque: a new order gets the lowest identifier not yet in use
FreshIds == {i \in OrderIds : ~GwKnown(i) /\ \A j \in OrderIds : j < i => GwKnown(j)}

Raised == [raised |-> TRUE]
NoIdResponse == [detail |-> "order not accepted"]

\* What a placement call can come back with: a transport failure, a response
\* without 'id', the order just created, or an open order for the same symbol
\* that the brokerage already holds (a resubmission it recognises).  Each
\* outcome carries the brokerage's order book after the call.
PlacementOutcomes(symbol) ==
    {[r |-> Raised, gw |-> gw_orders], [r |-> NoIdResponse, gw |-> gw_orders]}
    \cup {[r |-> [id |-> i, state |-> NewOrderState, instrument |-> Instrument(symbol)],
           gw |-> [gw_orders EXCEPT ![i] = [state |-> NewOrderState, symbol |-> symbol]]]
          : i \in FreshIds}
    \cup {[r |-> GwOrderDict(i), gw |-> gw_orders]
          : i \in {j \in OrderIds : GwOpen(j) /\ gw_orders[j].symbol = symbol}}

Place(fn, symbol, quantity, price, amount) ==
    Call(fn, [t |-> "place", symbol |-> symbol, quantity |-> quantity,
              price |-> price, amount |-> amount])
PlacementFns ==
    {"order_buy_fractional_by_price", "order_buy_fractional_by_quantity",
     "order_buy_limit", "order_buy_market",
     "order_sell_fractional_by_price", "order_sell_fractional_by_quantity",
     "order_sell_limit", "order_sell_market"}

----------------------------------------------------------------------------
(* buy_stock / sell_stock *)

Request(side, symbol, order_type, price, quantity, dollar_amount) ==
    [side |-> side, symbol |-> symbol, order_type |-> order_type,
     price |-> price, quantity |-> quantity, dollar_amount |-> dollar_amount]

Fails(err, msg) == [err |-> err, msg |-> msg, call |-> NoCall]
Calls(call) == [err |-> "none", msg |-> "", call |-> call]

\* buy_stock with the limit branch testing only the quantity for a negative value
BuyPlacementQuantityOnly(symbol, order_type, price, quantity, dollar_amount) ==
    IF order_type = "fractional_price" THEN
        IF IsNone(dollar_amount) THEN Fails("ValueError", "No dollar amount specified.")
        ELSE IF dollar_amount.v < 0 THEN Fails("ValueError", "Negative dollar amount.")
        ELSE Calls(Place("order_buy_fractional_by_price", symbol, None, None, dollar_amount))
    ELSE IF order_type = "fractional_quantity" THEN
        IF IsNone(quantity) THEN Fails("ValueError", "No quantity specified.")
        ELSE IF quantity.v < 0 THEN Fails("ValueError", "Negative quantity.")
        ELSE Calls(Place("order_buy_fractional_by_quantity", symbol, quantity, None, None))
    ELSE IF order_type = "limit" THEN
        IF IsNone(price) \/ IsNone(quantity)
        THEN Fails("ValueError", "No price or quantity specified.")
        ELSE IF quantity.v < 0
        THEN Fails("ValueError", "Negative quantity or price.")
        ELSE Calls(Place("order_buy_limit", symbol, PyInt(quantity), price, None))
    ELSE IF order_type = "market" THEN
        IF IsNone(quantity) THEN Fails("ValueError", "No quantity specified.")
        ELSE IF quantity.v < 0 THEN Fails("ValueError", "Negative quantity.")
        ELSE Calls(Place("order_buy_market", symbol, PyInt(quantity), None, None))
    ELSE Fails("ValueError", "Unsupported buy order type: ")

\* The if/elif chain of buy_stock: the error it raises, or the placement call
\* it makes.
BuyPlacement(symbol, order_type, price, quantity, dollar_amount) ==
    IF order_type = "fractional_price" THEN
        IF IsNone(dollar_amount) THEN Fails("ValueError", "No dollar amount specified.")
        ELSE IF dollar_amount.v < 0 THEN Fails("ValueError", "Negative dollar amount.")
        ELSE Calls(Place("order_buy_fractional_by_price", symbol, None, None, dollar_amount))
    ELSE IF order_type = "fractional_quantity" THEN
        IF IsNone(quantity) THEN Fails("ValueError", "No quantity specified.")
        ELSE IF quantity.v < 0 THEN Fails("ValueError", "Negative quantity.")
        ELSE Calls(Place("order_buy_fractional_by_quantity", symbol, quantity, None, None))
    ELSE IF order_type = "limit" THEN
        IF IsNone(price) \/ IsNone(quantity)
        THEN Fails("ValueError", "No price or quantity specified.")
        ELSE IF quantity.v < 0 \/ price.v < 0
        THEN Fails("ValueError", "Negative quantity or price.")
        ELSE Calls(Place("order_buy_limit", symbol, PyInt(quantity), price, None))
    ELSE IF order_type = "market" THEN
        IF IsNone(quantity) THEN Fails("ValueError", "No quantity specified.")
        ELSE IF quantity.v < 0 THEN Fails("ValueError", "Negative quantity.")
        ELSE Calls(Place("order_buy_market", symbol, PyInt(quantity), None, None))
    ELSE Fails("ValueError", "Unsupported buy order type: ")

\* sell_stock with a stop_limit branch that places the order unchecked
SellPlacementStopLimit(symbol, order_type, price, quantity, dollar_amount) ==
    IF order_type = "fractional_price" THEN
        IF IsNone(dollar_amount) THEN Fails("ValueError", "No dollar amount specified")
        ELSE IF dollar_amount.v < 0 THEN Fails("ValueError", "Negative dollar amount.")
        ELSE Calls(Place("order_sell_fractional_by_price", symbol, None, None, dollar_amount))
    ELSE IF order_type = "fractional_quantity" THEN
        IF IsNone(quantity) THEN Fails("ValueError", "No quantity specified")
        ELSE IF quantity.v < 0 THEN Fails("ValueError", "Negative quantity.")
        ELSE Calls(Place("order_sell_fractional_by_quantity", symbol, quantity, None, None))
    ELSE IF order_type = "limit" THEN
        IF IsNone(price) \/ IsNone(quantity)
        THEN Fails("ValueError", "No price or quantity specified")
        ELSE IF quantity.v < 0 \/ price.v < 0
        THEN Fails("ValueError", "Negative quantity or price.")
        ELSE Calls(Place("order_sell_limit", symbol, PyInt(quantity), price, None))
    ELSE IF order_type = "market" THEN
        IF IsNone(quantity) THEN Fails("ValueError", "No quantity specified")
        ELSE IF quantity.v < 0 THEN Fails("ValueError", "Negative quantity.")
        ELSE Calls(Place("order_sell_market", symbol, PyInt(quantity), None, None))
    ELSE IF order_type = "stop_limit" THEN
        Calls(Place("order_sell_stop_limit", symbol, None, price, None))
    ELSE Fails("ValueError", "Unsupported buy order type: ")

\* The if/elif chain of sell_stock.
SellPlacement(symbol, order_type, price, quantity, dollar_amount) ==
    IF order_type = "fractional_price" THEN
        IF IsNone(dollar_amount) THEN Fails("ValueError", "No dollar amount specified")
        ELSE IF dollar_amount.v < 0 THEN Fails("ValueError", "Negative dollar amount.")
        ELSE Calls(Place("order_sell_fractional_by_price", symbol, None, None, dollar_amount))
    ELSE IF order_type = "fractional_quantity" THEN
        IF IsNone(quantity) THEN Fails("ValueError", "No quantity specified")
        ELSE IF quantity.v < 0 THEN Fails("ValueError", "Negative quantity.")
        ELSE Calls(Place("order_sell_fractional_by_quantity", symbol, quantity, None, None))
    ELSE IF order_type = "limit" THEN
        IF IsNone(price) \/ IsNone(quantity)
        THEN Fails("ValueError", "No price or quantity specified")
        ELSE IF quantity.v < 0 \/ price.v < 0
        THEN Fails("ValueError", "Negative quantity or price.")
        ELSE Calls(Place("order_sell_limit", symbol, PyInt(quantity), price, None))
    ELSE IF order_type = "market" THEN
        IF IsNone(quantity) THEN Fails("ValueError", "No quantity specified")
        ELSE IF quantity.v < 0 THEN Fails("ValueError", "Negative quantity.")
        ELSE Calls(Place("order_sell_market", symbol, PyInt(quantity), None, None))
    ELSE Fails("ValueError", "Unsupported buy order type: ")

\* buy_stock without the symbol assignment
BuyOrderNoSymbol(buy_order, symbol) == buy_order

\* buy_order['symbol'] = symbol
BuyOrder(buy_order, symbol) == RecSet(buy_order, "symbol", symbol)

\* buy_stock adding an entry for every response with an id, tracked or not
BuyRegisterAppend(orders, buy_order) ==
    IF "id" \notin DOMAIN buy_order THEN orders
    ELSE Append(orders, [k |-> buy_order.id, v |-> buy_order])

\* the 'id' test of buy_stock: the registry afterwards
BuyRegister(orders, buy_order) ==
    IF "id" \notin DOMAIN buy_order THEN orders
    ELSE DictSet(orders, buy_order.id, buy_order)

\* the lines buy_stock prints
BuyLog(buy_order, symbol) ==
    <<Line("BUY ORDER SUBMITTED", 0, symbol)>>
    \o (IF "id" \notin DOMAIN buy_order THEN <<Line("FAILED ORDER", 0, symbol)>> ELSE << >>)

\* sell_order['symbol'] = symbol
SellOrder(sell_order, symbol) == RecSet(sell_order, "symbol", symbol)

\* sell_stock registering the response whether or not it has an 'id'
SellRegisterAlways(orders, sell_order) ==
    DictSet(orders, IF "id" \in DOMAIN sell_order THEN sell_order.id ELSE 0, sell_order)

\* the 'id' test of sell_stock: the registry afterwards
SellRegister(orders, sell_order) ==
    IF "id" \notin DOMAIN sell_order THEN orders
    ELSE DictSet(orders, sell_order.id, sell_order)

SellLog(sell_order, symbol) ==
    (IF "id" \notin DOMAIN sell_order THEN <<Line("FAILED ORDER", 0, symbol)>> ELSE << >>)
    \o <<Line("SELL ORDER SUBMITTED", 0, symbol)>>

\* buy_stock placing the order a second time when the first call raises
buy_stock_retrying(symbol, order_type, price, quantity, dollar_amount) ==
    LET p == BuyPlacement(symbol, order_type, price, quantity, dollar_amount)
    IN  /\ session = "Ready"
        /\ op' = "buy_stock"
        /\ req' = Request("buy", symbol, order_type, price, quantity, dollar_amount)
        /\ pre' = open_orders
        /\ streak' = 0
        /\ scan' = << >>
        /\ UNCHANGED <<session, stocks, portfolio, portfolio_symbols,
                       gw_watchlist, gw_holdings, gw_positions, now>>
        /\ IF p.err # "none"
           THEN /\ outcome' = Error(p.err, p.msg)
                /\ resp' = None
                /\ ret' = None
                /\ calls' = << >>
                /\ log' = << >>
                /\ UNCHANGED <<open_orders, gw_orders>>
           ELSE \E o \in PlacementOutcomes(symbol) :
                /\ calls' = (IF o.r = Raised THEN <<p.call, p.call>> ELSE <<p.call>>)
                /\ resp' = o.r
                /\ gw_orders' = o.gw
                /\ IF o.r = Raised
                   THEN /\ outcome' = Error("GatewayError", "")
                        /\ ret' = None
                        /\ log' = << >>
                        /\ UNCHANGED open_orders
                   ELSE LET buy_order == BuyOrder(o.r, symbol)
                        IN  /\ outcome' = Ok
                            /\ log' = BuyLog(buy_order, symbol)
                            /\ open_orders' = BuyRegister(open_orders, buy_order)
                            /\ ret' = buy_order

\* self.buy_stock(symbol, order_type, price, quantity, dollar_amount)
buy_stock(symbol, order_type, price, quantity, dollar_amount) ==
    LET p == BuyPlacement(symbol, order_type, price, quantity, dollar_amount)
    IN  /\ session = "Ready"
        /\ op' = "buy_stock"
        /\ req' = Request("buy", symbol, order_type, price, quantity, dollar_amount)
        /\ pre' = open_orders
        /\ streak' = 0
        /\ scan' = << >>
        /\ UNCHANGED <<session, stocks, portfolio, portfolio_symbols,
                       gw_watchlist, gw_holdings, gw_positions, now>>
        /\ IF p.err # "none"
           THEN /\ outcome' = Error(p.err, p.msg)
                /\ resp' = None
                /\ ret' = None
                /\ calls' = << >>
                /\ log' = << >>
                /\ UNCHANGED <<open_orders, gw_orders>>
           ELSE \E o \in PlacementOutcomes(symbol) :
                /\ calls' = <<p.call>>
                /\ resp' = o.r
                /\ gw_orders' = o.gw
                /\ IF o.r = Raised
                   THEN /\ outcome' = Error("GatewayError", "")
                        /\ ret' = None
                        /\ log' = << >>
                        /\ UNCHANGED open_orders
                   ELSE LET buy_order == BuyOrder(o.r, symbol)
                        IN  /\ outcome' = Ok
                            /\ log' = BuyLog(buy_order, symbol)
                            /\ open_orders' = BuyRegister(open_orders, buy_order)
                            /\ ret' = buy_order

\* self.sell_stock(symbol, order_type, price, quantity, dollar_amount)
sell_stock(symbol, order_type, price, quantity, dollar_amount) ==
    LET p == SellPlacement(symbol, order_type, price, quantity, dollar_amount)
    IN  /\ session = "Ready"
        /\ op' = "sell_stock"
        /\ req' = Request("sell", symbol, order_type, price, quantity, dollar_amount)
        /\ pre' = open_orders
        /\ streak' = 0
        /\ scan' = << >>
        /\ UNCHANGED <<session, stocks, portfolio, portfolio_symbols,
                       gw_watchlist, gw_holdings, gw_positions, now>>
        /\ IF p.err # "none"
           THEN /\ outcome' = Error(p.err, p.msg)
                /\ resp' = None
                /\ ret' = None
                /\ calls' = << >>
                /\ log' = << >>
                /\ UNCHANGED <<open_orders, gw_orders>>
           ELSE \E o \in PlacementOutcomes(symbol) :
                /\ calls' = <<p.call>>
                /\ resp' = o.r
                /\ gw_orders' = o.gw
                /\ IF o.r = Raised
                   THEN /\ outcome' = Error("GatewayError", "")
                        /\ ret' = None
                        /\ log' = << >>
                        /\ UNCHANGED open_orders
                   ELSE LET sell_order == SellOrder(o.r, symbol)
                        IN  /\ outcome' = Ok
                            /\ log' = SellLog(sell_order, symbol)
                            /\ open_orders' = SellRegister(open_orders, sell_order)
                            /\ ret' = sell_order

----------------------------------------------------------------------------
(* cancel_stock_order / cancel_all_stock_orders *)

Cancelled(gw, ids) ==
    [i \in OrderIds |-> IF i \in ids THEN [gw[i] EXCEPT !.state = "cancelled"] ELSE gw[i]]

\* rh.orders.cancel_stock_order(orderID).  The request reaches the brokerage or
\* the call raises; a request that arrives cancels the order at the brokerage
\* at once, or not (yet).
CancelAtGateway(orderID) ==
    /\ session = "Ready"
    /\ op' = "cancel_stock_order"
    /\ req' = [orderID |-> orderID]
    /\ pre' = open_orders
    /\ calls' = <<Call("cancel_stock_order", IntVal(orderID))>>
    /\ log' = << >>
    /\ resp' = None
    /\ streak' = 0
    /\ scan' = << >>
    /\ UNCHANGED <<session, stocks, portfolio, portfolio_symbols,
                   gw_watchlist, gw_holdings, gw_positions, now>>
    /\ \E effect \in {"cancelled", "pending", "raise"} :
        /\ effect = "cancelled" => GwOpen(orderID)
        /\ gw_orders' = IF effect = "cancelled" THEN Cancelled(gw_orders, {orderID})
                        ELSE gw_orders
        /\ outcome' = IF effect = "raise" THEN Error("GatewayError", "") ELSE Ok
        /\ ret' = IF effect = "raise" THEN None ELSE [t |-> "status"]

\* cancel_stock_order dropping the order from the registry as well
CancelAndForget(orderID) ==
    /\ CancelAtGateway(orderID)
    /\ open_orders' = IF DictHas(open_orders, orderID) THEN DictDel(open_orders, orderID)
                      ELSE open_orders

\* self.cancel_stock_order(orderID)
cancel_stock_order(orderID) ==
    /\ CancelAtGateway(orderID)
    /\ UNCHANGED open_orders

\* self.cancel_all_stock_orders()
cancel_all_stock_orders ==
    /\ session = "Ready"
    /\ op' = "cancel_all_stock_orders"
    /\ req' = None
    /\ pre' = open_orders
    /\ calls' = <<Call("cancel_all_stock_orders", None)>>
    /\ log' = << >>
    /\ resp' = None
    /\ streak' = 0
    /\ scan' = << >>
    /\ UNCHANGED <<session, stocks, open_orders, portfolio, portfolio_symbols,
                   gw_watchlist, gw_holdings, gw_positions, now>>
    /\ \/ /\ outcome' = Error("GatewayError", "")
          /\ ret' = None
          /\ UNCHANGED gw_orders
       \/ \E ids \in SUBSET {i \in OrderIds : GwOpen(i)} :
          /\ gw_orders' = Cancelled(gw_orders, ids)
          /\ outcome' = Ok
          /\ ret' = [t |-> "statuses"]

----------------------------------------------------------------------------
(* get_all_open_stock_orders / update_open_orders *)

RECURSIVE GwOpenOrdersFrom(_)
GwOpenOrdersFrom(i) ==
    IF i > MaxOrders THEN << >>
    ELSE (IF GwOpen(i) THEN <<GwOrderDict(i)>> ELSE << >>) \o GwOpenOrdersFrom(i + 1)
\* rh.orders.get_all_open_stock_orders()
GwOpenOrders == GwOpenOrdersFrom(1)

\* the loop of get_all_open_stock_orders
RECURSIVE OrderDict(_, _)
OrderDict(order_dict, orders) ==
    IF orders = << >> THEN order_dict
    ELSE LET order == RecSet(Head(orders), "symbol", GwInstrument(Head(orders).instrument).symbol)
         IN  OrderDict(DictSet(order_dict, order.id, order), Tail(orders))

get_all_open_stock_orders == OrderDict(EmptyDict, GwOpenOrders)

\* update_open_orders keeping only queued orders
RemovesUnlessQueued(order_info) == order_info.state # "queued"
\* update_open_orders without the 'rejected' branch
RemovesNotRejected(order_info) ==
    order_info.state = "filled" \/ order_info.state = "cancelled"
\* update_open_orders without the test for 'cancelled'
RemovesNotCancelled(order_info) ==
    order_info.state = "filled" \/ order_info.state = "rejected"

\* the if/elif of update_open_orders: is the order appended to remove_orders
Removes(order_info) ==
    IF order_info.state = "filled" \/ order_info.state = "cancelled" THEN TRUE
    ELSE IF order_info.state = "rejected" THEN TRUE
    ELSE FALSE

\* update_open_orders printing only the reason of a rejected order
ScanLinesRejectedOnly(order_id) ==
    LET order_info == GwOrderInfo(order_id)
    IN  IF order_info.state = "rejected"
        THEN <<Line("Rejected order", order_id, order_info.reject_reason)>>
        ELSE << >>

\* what the loop body prints for one order
ScanLines(order_id) ==
    LET order_info == GwOrderInfo(order_id)
    IN  <<Line("order_info", order_id, order_info.state)>>
        \o (IF order_info.state = "filled" \/ order_info.state = "cancelled" THEN << >>
            ELSE IF order_info.state = "rejected"
            THEN <<Line("Rejected order", order_id, order_info.reject_reason)>>
            ELSE << >>)

\* the first loop of update_open_orders over keys: remove_orders
RECURSIVE RemoveOrders(_)
RemoveOrders(keys) ==
    IF keys = << >> THEN << >>
    ELSE (IF Removes(GwOrderInfo(Head(keys))) THEN <<Head(keys)>> ELSE << >>)
         \o RemoveOrders(Tail(keys))

RECURSIVE ScanLog(_)
ScanLog(keys) ==
    IF keys = << >> THEN << >> ELSE ScanLines(Head(keys)) \o ScanLog(Tail(keys))

ScanCalls(keys) == [i \in 1 .. Len(keys) |-> Call("get_stock_order_info", IntVal(keys[i]))]

\* one step of update_open_orders: a state query, a print or a del
Step(ev, id, info) == [ev |-> ev, id |-> id, info |-> info]

\* the body of the first loop for one order: the query, then what it prints
ScanSteps(order_id) ==
    <<Step("query", order_id, "")>>
    \o [i \in 1 .. Len(ScanLines(order_id)) |-> Step("print", order_id, ScanLines(order_id)[i].msg)]

RECURSIVE FirstLoop(_)
FirstLoop(keys) ==
    IF keys = << >> THEN << >> ELSE ScanSteps(Head(keys)) \o FirstLoop(Tail(keys))

\* the second loop, one del for each entry of remove_orders
SecondLoop(remove_orders) ==
    [i \in 1 .. Len(remove_orders) |-> Step("del", remove_orders[i], "")]

\* update_open_orders deleting an order in the loop that queries it
RECURSIVE UpdateStepsDeletingInLoop(_)
UpdateStepsDeletingInLoop(keys) ==
    IF keys = << >> THEN << >>
    ELSE ScanSteps(Head(keys))
         \o (IF Removes(GwOrderInfo(Head(keys))) THEN SecondLoop(<<Head(keys)>>) ELSE << >>)
         \o UpdateStepsDeletingInLoop(Tail(keys))

\* the statements of update_open_orders in the order they run: the first loop
\* over every key, then the second loop over remove_orders
UpdateSteps(keys) == FirstLoop(keys) \o SecondLoop(RemoveOrders(keys))

\* update_open_orders stopping after the first deletion
DeleteFirstOnly(orders, remove_orders) ==
    IF remove_orders = << >> THEN orders ELSE DictDel(orders, Head(remove_orders))

\* the second loop: del self.open_orders[id] for id in remove_orders
RECURSIVE DeleteAll(_, _)
DeleteAll(orders, remove_orders) ==
    IF remove_orders = << >> THEN orders
    ELSE DeleteAll(DictDel(orders, Head(remove_orders)), Tail(remove_orders))

\* update_open_orders deleting the orders it has seen ended when a query raises
update_open_orders_eager ==
    /\ session = "Ready"
    /\ op' = "update_open_orders"
    /\ req' = None
    /\ pre' = open_orders
    /\ ret' = None
    /\ resp' = None
    /\ UNCHANGED <<session, stocks, portfolio, portfolio_symbols,
                   gw_orders, gw_watchlist, gw_holdings, gw_positions, now>>
    /\ LET keys == DictKeys(open_orders)
       IN  \E failing \in 0 .. Len(keys) :
             IF failing = 0
             THEN /\ outcome' = Ok
                  /\ streak' = (IF streak < 2 THEN streak + 1 ELSE streak)
                  /\ calls' = ScanCalls(keys)
                  /\ log' = ScanLog(keys)
                  /\ scan' = UpdateSteps(keys)
                  /\ open_orders' = DeleteAll(open_orders, RemoveOrders(keys))
             ELSE /\ outcome' = Error("GatewayError", "")
                  /\ streak' = 0
                  /\ calls' = ScanCalls(SubSeq(keys, 1, failing))
                  /\ log' = ScanLog(SubSeq(keys, 1, failing - 1))
                  /\ scan' = FirstLoop(SubSeq(keys, 1, failing - 1))
                              \o <<Step("query", keys[failing], "")>>
                  /\ open_orders' = DeleteAll(open_orders,
                                              RemoveOrders(SubSeq(keys, 1, failing - 1)))

\* self.update_open_orders().  Every state query answers, or the query numbered
\* failing raises and the call ends there.
update_open_orders ==
    /\ session = "Ready"
    /\ op' = "update_open_orders"
    /\ req' = None
    /\ pre' = open_orders
    /\ ret' = None
    /\ resp' = None
    /\ UNCHANGED <<session, stocks, portfolio, portfolio_symbols,
                   gw_orders, gw_watchlist, gw_holdings, gw_positions, now>>
    /\ LET keys == DictKeys(open_orders)
       IN  \E failing \in 0 .. Len(keys) :
             IF failing = 0
             THEN /\ outcome' = Ok
                  /\ streak' = (IF streak < 2 THEN streak + 1 ELSE streak)
                  /\ calls' = ScanCalls(keys)
                  /\ log' = ScanLog(keys)
                  /\ scan' = UpdateSteps(keys)
                  /\ open_orders' = DeleteAll(open_orders, RemoveOrders(keys))
             ELSE /\ outcome' = Error("GatewayError", "")
                  /\ streak' = 0
                  /\ calls' = ScanCalls(SubSeq(keys, 1, failing))
                  /\ log' = ScanLog(SubSeq(keys, 1, failing - 1))
                  /\ scan' = FirstLoop(SubSeq(keys, 1, failing - 1))
                              \o <<Step("query", keys[failing], "")>>
                  /\ UNCHANGED open_orders

\* a step that is no method call: the record of the last call is blank
Blank(name) ==
    /\ op' = name
    /\ req' = None
    /\ outcome' = Ok
    /\ ret' = None
    /\ calls' = << >>
    /\ log' = << >>
    /\ pre' = open_orders
    /\ resp' = None
    /\ streak' = 0
    /\ scan' = << >>

\* The brokerage moves an open order on: it fills it (partly or wholly),
\* cancels it or rejects it.  A terminal order stays as it is.
GatewayStep ==
    \E i \in OrderIds, s \in GwStates \ {"queued"} :
        /\ GwOpen(i)
        /\ s # gw_orders[i].state
        /\ gw_orders' = [gw_orders EXCEPT ![i].state = s]
        /\ Blank("brokerage")
        /\ UNCHANGED <<session, stocks, open_orders, portfolio, portfolio_symbols,
                       gw_watchlist, gw_holdings, gw_positions, now>>

----------------------------------------------------------------------------
(* The clock and market_open *)

DaySeconds == 24 * 3600
Clock(dow, utc, dst) == [dow |-> dow, utc |-> utc, dst |-> dst]

\* .astimezone(pytz.timezone('US/Eastern')): the Eastern wall clock of an
\* instant, four hours behind UTC in summer time and five otherwise
ToEastern(t) ==
    LET local == t.utc - (IF t.dst THEN 4 * 3600 ELSE 5 * 3600)
    IN  IF local < 0 THEN [dow |-> (t.dow + 6) % 7, tod |-> local + DaySeconds]
        ELSE [dow |-> t.dow, tod |-> local]

\* dt.time(h, m, s), as seconds of the day
TimeOfDay(h, m, s) == h * 3600 + m * 60 + s

\* market_open with the opening second included
MarketOpenInclusive(t) ==
    LET time == ToEastern(t).tod
    IN  TimeOfDay(9, 30, 0) <= time /\ time < TimeOfDay(16, 0, 0)

\* market_open(): open < time < close
MarketOpen(t) ==
    LET time == ToEastern(t).tod
        open == TimeOfDay(9, 30, 0)
        close == TimeOfDay(16, 0, 0)
    IN  open < time /\ time < close

\* self.market_open()
market_open ==
    /\ session = "Ready"
    /\ op' = "market_open"
    /\ req' = [now |-> now]
    /\ resp' = None
    /\ streak' = 0
    /\ scan' = << >>
    /\ pre' = open_orders
    /\ outcome' = Ok
    /\ ret' = Bool(MarketOpen(now))
    /\ calls' = << >>
    /\ log' = << >>
    /\ UNCHANGED <<session, stocks, open_orders, portfolio, portfolio_symbols,
                   gw_orders, gw_watchlist, gw_holdings, gw_positions, now>>

----------------------------------------------------------------------------
(* trade *)

\* sleep(10)
SleepSeconds == 10

\* the clock n seconds on
Later(t, n) ==
    IF t.utc + n >= DaySeconds
    THEN Clock((t.dow + 1) % 7, t.utc + n - DaySeconds, t.dst)
    ELSE Clock(t.dow, t.utc + n, t.dst)

\* rh.stocks.get_latest_price(self.stocks)
LatestPrice == Call("get_latest_price", [t |-> "list", v |-> stocks])
\* sleep(10)
Sleep == Call("sleep", IntVal(SleepSeconds))

\* the loop body of trade reconciling the registry before it sleeps
TradeBodyReconciling ==
    /\ UNCHANGED <<stocks, portfolio, portfolio_symbols, gw_orders>>
    /\ open_orders' = DeleteAll(open_orders, RemoveOrders(DictKeys(open_orders)))
    /\ \E raised \in BOOLEAN :
         IF raised
         THEN /\ calls' = <<LatestPrice>>
              /\ outcome' = Error("GatewayError", "")
              /\ session' = "Ready"
              /\ UNCHANGED now
         ELSE /\ calls' = <<LatestPrice>> \o ScanCalls(DictKeys(open_orders)) \o <<Sleep>>
              /\ outcome' = Ok
              /\ session' = "Polling"
              /\ now' = Later(now, SleepSeconds)

\* the body of the while loop of trade: the price query, which answers or
\* raises, and then the sleep
TradeBody ==
    /\ UNCHANGED <<stocks, open_orders, portfolio, portfolio_symbols, gw_orders>>
    /\ \E raised \in BOOLEAN :
         IF raised
         THEN /\ calls' = <<LatestPrice>>
              /\ outcome' = Error("GatewayError", "")
              /\ session' = "Ready"
              /\ UNCHANGED now
         ELSE /\ calls' = <<LatestPrice, Sleep>>
              /\ outcome' = Ok
              /\ session' = "Polling"
              /\ now' = Later(now, SleepSeconds)

\* trade looping whatever the clock says
WhileTrue(name) ==
    /\ op' = name
    /\ req' = [now |-> now]
    /\ pre' = open_orders
    /\ resp' = None
    /\ ret' = None
    /\ log' = << >>
    /\ streak' = 0
    /\ scan' = << >>
    /\ UNCHANGED <<gw_watchlist, gw_holdings, gw_positions>>
    /\ TradeBody

\* one evaluation of `while self.market_open():` at the instant now, with the
\* loop body when it holds and the return when it does not
While(name) ==
    /\ op' = name
    /\ req' = [now |-> now]
    /\ pre' = open_orders
    /\ resp' = None
    /\ ret' = None
    /\ log' = << >>
    /\ streak' = 0
    /\ scan' = << >>
    /\ UNCHANGED <<gw_watchlist, gw_holdings, gw_positions>>
    /\ IF MarketOpen(now)
       THEN TradeBody
       ELSE /\ calls' = << >>
            /\ outcome' = Ok
            /\ session' = "Ready"
            /\ UNCHANGED <<stocks, open_orders, portfolio, portfolio_symbols, gw_orders, now>>

\* self.trade() is called: the first evaluation of the loop condition
trade == session = "Ready" /\ While("trade")

\* trade() goes on after a sleep: the next evaluation of the loop condition
trade_loop == session = "Polling" /\ While("trade_loop")

----------------------------------------------------------------------------
(* get_portfolio, get_watchlist and __init__ *)

\* rh.build_holdings(): symbol -> holding
RECURSIVE GwHoldingsDict(_)
GwHoldingsDict(symbols) ==
    IF symbols = << >> THEN EmptyDict
    ELSE DictSet(GwHoldingsDict(SubSeq(symbols, 1, Len(symbols) - 1)),
                 symbols[Len(symbols)], [quantity |-> "held"])

\* get_portfolio stamping every holding once there is any open position
HoldingsStampAll(holdings, stock_data) ==
    IF stock_data = << >> THEN holdings
    ELSE [i \in 1 .. Len(holdings) |->
            [k |-> holdings[i].k,
             v |-> RecSet(holdings[i].v, "created_at", ToEastern(Head(stock_data).created_at))]]

\* the loop of get_portfolio over stock_data
RECURSIVE Holdings(_, _)
Holdings(holdings, stock_data) ==
    IF stock_data = << >> THEN holdings
    ELSE LET stock == Head(stock_data)
             symbol == GwInstrument(stock.instrument).symbol
         IN  IF DictHas(holdings, symbol)
             THEN Holdings(DictSet(holdings, symbol,
                                   RecSet(DictLookup(holdings, symbol), "created_at",
                                          ToEastern(stock.created_at))),
                           Tail(stock_data))
             ELSE Holdings(holdings, Tail(stock_data))

PortfolioCalls ==
    <<Call("build_holdings", None), Call("get_open_stock_positions", None)>>
    \o [i \in 1 .. Len(gw_positions) |-> Call("get_instrument_by_url", gw_positions[i].instrument)]

\* self.get_portfolio()
get_portfolio ==
    /\ session = "Ready"
    /\ op' = "get_portfolio"
    /\ resp' = None
    /\ streak' = 0
    /\ scan' = << >>
    /\ req' = None
    /\ pre' = open_orders
    /\ outcome' = Ok
    /\ calls' = PortfolioCalls
    /\ log' = << >>
    /\ portfolio' = Holdings(GwHoldingsDict(gw_holdings), gw_positions)
    /\ portfolio_symbols' = DictKeys(portfolio')
    /\ ret' = portfolio'
    /\ UNCHANGED <<session, stocks, open_orders,
                   gw_orders, gw_watchlist, gw_holdings, gw_positions, now>>

\* self.get_watchlist(watchlist)
get_watchlist(watchlist) == gw_watchlist

\* __init__ giving the stocks argument priority over the watchlist
InitStocksListFirst(watchlist, stocklist) ==
    IF ~IsNone(stocklist) THEN stocklist.v
    ELSE IF ~IsNone(watchlist) THEN get_watchlist(watchlist.v) ELSE << >>

\* self.stocks after the three statements of __init__ that set it
InitStocks(watchlist, stocklist) ==
    LET given == IF IsNone(stocklist) THEN << >> ELSE stocklist.v
    IN  IF ~IsNone(watchlist) THEN get_watchlist(watchlist.v) ELSE given

\* __init__ logging in after it has loaded everything
ConstructCallsLoginLast(watchlist) ==
    (IF ~IsNone(watchlist) THEN <<Call("get_watchlist_by_name", watchlist)>> ELSE << >>)
    \o <<Call("get_all_open_stock_orders", None)>>
    \o [i \in 1 .. Len(GwOpenOrders) |-> Call("get_instrument_by_url", GwOpenOrders[i].instrument)]
    \o PortfolioCalls
    \o <<Call("login", None)>>

\* the gateway calls of __init__ in the order of its statements
ConstructCalls(watchlist) ==
    <<Call("login", None)>>
    \o (IF ~IsNone(watchlist) THEN <<Call("get_watchlist_by_name", watchlist)>> ELSE << >>)
    \o <<Call("get_all_open_stock_orders", None)>>
    \o [i \in 1 .. Len(GwOpenOrders) |-> Call("get_instrument_by_url", GwOpenOrders[i].instrument)]
    \o PortfolioCalls

\* RobinHoodBot(username, password, watchlist, stocks)
Construct(watchlist, stocklist) ==
    /\ session \in {"Unauthenticated", "Authenticated"}
    /\ session' = "Ready"
    /\ op' = "__init__"
    /\ resp' = None
    /\ streak' = 0
    /\ scan' = << >>
    /\ req' = [watchlist |-> watchlist, stocks |-> stocklist]
    /\ pre' = open_orders
    /\ outcome' = Ok
    /\ ret' = None
    /\ calls' = ConstructCalls(watchlist)
    /\ log' = << >>
    /\ stocks' = InitStocks(watchlist, stocklist)
    /\ open_orders' = get_all_open_stock_orders
    /\ portfolio' = Holdings(GwHoldingsDict(gw_holdings), gw_positions)
    /\ portfolio_symbols' = DictKeys(portfolio')
    /\ UNCHANGED <<gw_orders, gw_watchlist, gw_holdings, gw_positions, now>>

\* RobinHoodBot(...) when the gateway call numbered n raises: no object is
\* made; the process is logged in once login has answered
ConstructRaises(watchlist, stocklist) ==
    \E n \in 1 .. Len(ConstructCalls(watchlist)) :
        /\ session \in {"Unauthenticated", "Authenticated"}
        /\ session' = (IF n = 1 THEN session ELSE "Authenticated")
        /\ op' = "__init__"
        /\ resp' = None
        /\ streak' = 0
        /\ scan' = << >>
        /\ req' = [watchlist |-> watchlist, stocks |-> stocklist]
        /\ pre' = open_orders
        /\ outcome' = Error("GatewayError", "")
        /\ ret' = None
        /\ calls' = SubSeq(ConstructCalls(watchlist), 1, n)
        /\ log' = << >>
        /\ UNCHANGED <<stocks, open_orders, portfolio, portfolio_symbols,
                       gw_orders, gw_watchlist, gw_holdings, gw_positions, now>>

----------------------------------------------------------------------------
(* Specifications *)

Str(x) == [t |-> "str", v |-> x]
List(x) == [t |-> "list", v |-> x]

\* before RobinHoodBot(...) is called
NoSession ==
    /\ session = "Unauthenticated"
    /\ stocks = << >>
    /\ open_orders = EmptyDict
    /\ portfolio = EmptyDict
    /\ portfolio_symbols = << >>
    /\ op = "none"
    /\ req = None
    /\ outcome = Ok
    /\ ret = None
    /\ calls = << >>
    /\ log = << >>
    /\ pre = EmptyDict
    /\ resp = None
    /\ streak = 0
    /\ scan = << >>

\* order books of the brokerage: the identifiers in use are 1..k, each order
\* for SOFI and in one of the given states
Books(states) ==
    {b \in [OrderIds -> {NoOrder} \cup [state : states, symbol : {"SOFI"}]] :
        \A i, j \in OrderIds : (j < i /\ b[i] # NoOrder) => b[j] # NoOrder}

Noon == Clock(1, TimeOfDay(17, 0, 0), FALSE)

Account ==
    /\ gw_watchlist = <<"SOFI", "AAPL">>
    /\ gw_holdings = <<"SOFI">>
    /\ gw_positions = <<[instrument |-> Instrument("SOFI"),
                         created_at |-> Clock(1, TimeOfDay(15, 0, 0), FALSE)]>>

\* main(): RobinHoodBot(RH_USERNAME, RH_PASSWORD, watchlist='bot')
Main == Construct(Str("bot"), None)

(* The order lifecycle: submission (the limit buy of main), cancellation,   *)
(* reconciliation and the brokerage moving orders on.                       *)
Init ==
    /\ NoSession
    /\ Account
    /\ gw_orders \in Books({"queued"})
    /\ now = Noon

Buy == buy_stock("SOFI", "limit", Num(Scale), Num(Scale), None)
Cancel == \E orderID \in OrderIds \cup {0} : cancel_stock_order(orderID)

Next ==
    \/ Main
    \/ Buy
    \/ Cancel
    \/ cancel_all_stock_orders
    \/ update_open_orders
    \/ GatewayStep

Spec == Init /\ [][Next]_vars

(* Submission: every side, order type and combination of arguments.         *)
OrderTypes == {"fractional_price", "fractional_quantity", "limit", "market"}
OrderTypeInputs == OrderTypes \cup {"stop_limit"}
NumInputs == {None, Num(0 - 1), Num(Scale + 1)}

InitSubmit ==
    /\ NoSession
    /\ Account
    /\ gw_orders \in {b \in Books({"partially_filled"}) :
                        Cardinality({i \in OrderIds : b[i] # NoOrder}) = MaxOrders - 1}
    /\ now = Noon

BuyAny ==
    \E symbol \in Symbols, order_type \in OrderTypeInputs,
       price \in NumInputs, quantity \in NumInputs, dollar_amount \in NumInputs :
        buy_stock(symbol, order_type, price, quantity, dollar_amount)

SellAny ==
    \E symbol \in Symbols, order_type \in OrderTypeInputs,
       price \in NumInputs, quantity \in NumInputs, dollar_amount \in NumInputs :
        sell_stock(symbol, order_type, price, quantity, dollar_amount)

NextSubmit ==
    \/ Main
    \/ BuyAny
    \/ SellAny

SpecSubmit == InitSubmit /\ [][NextSubmit]_vars

(* The market-hours gate under a moving clock.                              *)
EasternSamples ==
    {TimeOfDay(8, 0, 0), TimeOfDay(9, 29, 59), TimeOfDay(9, 30, 0), TimeOfDay(9, 30, 1),
     TimeOfDay(12, 0, 0), TimeOfDay(15, 59, 59), TimeOfDay(16, 0, 0), TimeOfDay(16, 0, 1),
     TimeOfDay(17, 0, 0), TimeOfDay(21, 0, 0)}
ClockSamples ==
    {Clock(dow, (e + h * 3600) % DaySeconds, dst) :
        dow \in 0 .. 6, e \in EasternSamples, h \in {4, 5}, dst \in BOOLEAN}

InitClock ==
    /\ NoSession
    /\ Account
    /\ gw_orders = [i \in OrderIds |-> NoOrder]
    /\ now \in ClockSamples

\* time passes
Tick ==
    /\ now' \in ClockSamples
    /\ now' # now
    /\ Blank("clock")
    /\ UNCHANGED <<session, stocks, open_orders, portfolio, portfolio_symbols,
                   gw_orders, gw_watchlist, gw_holdings, gw_positions>>

NextClock ==
    \/ Main
    \/ Tick
    \/ market_open

SpecClock == InitClock /\ [][NextClock]_vars

(* Polling: trade() called at instants around the opening and the close.     *)
TradeEastern ==
    {TimeOfDay(9, 29, 55), TimeOfDay(9, 30, 0), TimeOfDay(15, 0, 0), TimeOfDay(15, 59, 45),
     TimeOfDay(15, 59, 51), TimeOfDay(16, 0, 0), TimeOfDay(23, 59, 55)}
TradeStarts ==
    {Clock(dow, (e + (IF dst THEN 4 ELSE 5) * 3600) % DaySeconds, dst) :
        dow \in {1, 6}, e \in TradeEastern, dst \in BOOLEAN}

InitTrade ==
    /\ NoSession
    /\ Account
    /\ gw_orders \in Books({"queued"})
    /\ now \in TradeStarts

NextTrade ==
    \/ Main
    \/ trade
    \/ trade_loop

\* trade() runs on one thread: once its sleep is over the loop condition is
\* evaluated again
SpecTrade == InitTrade /\ [][NextTrade]_vars /\ WF_vars(trade_loop)

----------------------------------------------------------------------------
(* Claims *)

Submitted == op \in {"buy_stock", "sell_stock"}
HasId(r) == "id" \in DOMAIN r
IsResponse(r) == "t" \notin DOMAIN r /\ "raised" \notin DOMAIN r

RequiredFields(order_type) ==
    CASE order_type = "fractional_price" -> {"dollar_amount"}
      [] order_type = "fractional_quantity" -> {"quantity"}
      [] order_type = "limit" -> {"price", "quantity"}
      [] order_type = "market" -> {"quantity"}
InvalidRequest(q) ==
    \E f \in RequiredFields(q.order_type) : IsNone(q[f]) \/ q[f].v < 0

\* C1: a buy or sell of one of the four order types whose required field is
\* absent or negative raises an error; no placement call has been made and
\* the registry is what it was before the call.
C1_InvalidRequestFails ==
    (Submitted /\ req.order_type \in OrderTypes /\ InvalidRequest(req))
    => /\ outcome.kind = "ValueError"
       /\ calls = << >>
       /\ resp = None
       /\ open_orders = pre

C1_Witness ==
    /\ op = "buy_stock"
    /\ req.order_type = "limit"
    /\ ~IsNone(req.quantity) /\ req.quantity.v > 0
    /\ ~IsNone(req.price) /\ req.price.v < 0
    /\ outcome.kind = "ValueError"
    /\ DictLen(open_orders) > 0

\* C2: a buy or sell with an order type outside the four supported ones
\* raises the unsupported-order-type error before any gateway call, registry
\* unchanged, whatever price, quantity and dollar_amount are.
C2_UnsupportedShapeFails ==
    (Submitted /\ req.order_type \notin OrderTypes)
    => /\ outcome = Error("ValueError", "Unsupported buy order type: ")
       /\ calls = << >>
       /\ resp = None
       /\ open_orders = pre

C2_Witness ==
    /\ op = "sell_stock"
    /\ req.order_type = "stop_limit"
    /\ ~IsNone(req.price) /\ req.price.v > 0
    /\ ~IsNone(req.quantity) /\ req.quantity.v > 0
    /\ ~IsNone(req.dollar_amount) /\ req.dollar_amount.v > 0
    /\ outcome.kind = "ValueError"
    /\ DictLen(open_orders) > 0

\* C3 as stated: when the response to a valid submission carries an
\* identifier, a record with state = open is in the registry under that
\* identifier, it is the record returned, and its symbol is the one requested.
C3_RecordStateOpen ==
    (Submitted /\ HasId(resp))
    => /\ outcome = Ok
       /\ DictHas(open_orders, resp.id)
       /\ DictLookup(open_orders, resp.id) = ret
       /\ ret.state = "open"
       /\ "symbol" \in DOMAIN ret
       /\ ret.symbol = req.symbol

\* C3 as amended: when the response to a valid submission carries an
\* identifier, the response itself, with its symbol set to the one requested
\* and its state as the brokerage reported it, is in the registry under that
\* identifier and under no other new key, and it is the record returned.
C3_RecordInserted ==
    (Submitted /\ HasId(resp))
    => /\ outcome = Ok
       /\ DictHas(open_orders, resp.id)
       /\ DictLookup(open_orders, resp.id) = ret
       /\ DictKeySet(open_orders) = DictKeySet(pre) \cup {resp.id}
       /\ ret.id = resp.id
       /\ ret.state = resp.state
       /\ ret.state \in GwStates
       /\ "symbol" \in DOMAIN ret
       /\ ret.symbol = req.symbol

C3_Witness ==
    /\ op = "buy_stock"
    /\ req.symbol = "SOFI"
    /\ req.order_type = "limit"
    /\ HasId(resp)
    /\ ~DictHas(pre, resp.id)
    /\ DictHas(open_orders, resp.id)
    /\ ret.symbol = "SOFI"

\* C4: when the response to a valid submission carries no identifier, the
\* call returns (it does not raise), a FAILED ORDER line is printed and the
\* registry is what it was before the call.
C4_NoIdentifierReported ==
    (Submitted /\ IsResponse(resp) /\ ~HasId(resp))
    => /\ outcome = Ok
       /\ \E i \in 1 .. Len(log) : log[i].msg = "FAILED ORDER"
       /\ DictKeys(open_orders) = DictKeys(pre)
       /\ DictLen(open_orders) = DictLen(pre)
       /\ open_orders = pre

C4_Witness ==
    /\ op = "sell_stock"
    /\ resp = NoIdResponse
    /\ outcome = Ok
    /\ DictLen(open_orders) > 0

\* the order_info lines of the last pass that report a terminal state
TerminalLines ==
    {i \in 1 .. Len(log) : log[i].msg = "order_info" /\ log[i].info \in Terminal}
ReportedTerminal(order_id) == \E i \in TerminalLines : log[i].id = order_id
ReportedStates == {log[i].info : i \in {j \in 1 .. Len(log) : log[j].msg = "order_info"}}

\* C5: after update_open_orders, every order that was tracked when the call
\* began and was not reported filled, cancelled or rejected in this pass is
\* still in the registry with the record it had.
C5_NonTerminalRetained ==
    op = "update_open_orders"
    => \A i \in 1 .. Len(pre) :
         ~ReportedTerminal(pre[i].k)
         => /\ DictHas(open_orders, pre[i].k)
            /\ DictLookup(open_orders, pre[i].k) = pre[i].v

C5_Witness ==
    /\ op = "update_open_orders"
    /\ outcome = Ok
    /\ {"queued", "partially_filled"} \subseteq ReportedStates
    /\ DictLen(open_orders) < DictLen(pre)

\* C6: after a pass of update_open_orders that completes, no order reported
\* filled, cancelled or rejected in that pass is in the registry.
C6_TerminalRemoved ==
    (op = "update_open_orders" /\ outcome = Ok)
    => \A i \in TerminalLines : ~DictHas(open_orders, log[i].id)

C6_Witness ==
    /\ op = "update_open_orders"
    /\ outcome = Ok
    /\ Terminal \subseteq ReportedStates
    /\ open_orders = EmptyDict

\* C7: a second update_open_orders in a row, with no other call and no
\* change at the brokerage since the first, completes and leaves the registry
\* exactly as the first call left it.
C7_Idempotent ==
    streak = 2 => (op = "update_open_orders" /\ outcome = Ok /\ open_orders = pre)

C7_Witness ==
    /\ streak = 2
    /\ DictLen(open_orders) > 0
    /\ \E i \in OrderIds : gw_orders[i].state \in Terminal /\ ~DictHas(open_orders, i)

\* C8 as stated: update_open_orders returns the number of orders it removed,
\* the registry size before the call minus the size after it.
C8_ReturnsCountRemoved ==
    (op = "update_open_orders" /\ outcome = Ok)
    => ret = IntVal(DictLen(pre) - DictLen(open_orders))

\* C8 as amended: update_open_orders returns None; the number of orders it
\* removed, the registry size before the call minus the size after it, is the
\* number of orders reported terminal in the pass, and is 0 for a second call
\* in a row.
C8_RemovedCount ==
    (op = "update_open_orders" /\ outcome = Ok)
    => /\ ret = None
       /\ DictLen(pre) - DictLen(open_orders) = Cardinality(TerminalLines)
       /\ streak = 2 => DictLen(pre) - DictLen(open_orders) = 0

C8_Witness ==
    /\ op = "update_open_orders"
    /\ outcome = Ok
    /\ DictLen(pre) = 3
    /\ ReportedStates = {"filled"}
    /\ open_orders = EmptyDict

\* C9: cancel_stock_order, for any identifier, and cancel_all_stock_orders
\* leave the registry as it was, keys and records; no call other than
\* update_open_orders takes an order out of the registry.
C9_CancelKeepsRegistry ==
    /\ op \in {"cancel_stock_order", "cancel_all_stock_orders"} => open_orders = pre
    /\ op # "update_open_orders" => DictKeySet(pre) \subseteq DictKeySet(open_orders)

C9_Witness ==
    /\ op = "cancel_stock_order"
    /\ outcome = Ok
    /\ DictHas(open_orders, req.orderID)
    /\ gw_orders[req.orderID].state = "cancelled"

\* the Eastern wall-clock time of day of an instant, in seconds
EasternSeconds(t) == (t.utc + DaySeconds - (IF t.dst THEN 4 ELSE 5) * 3600) % DaySeconds
StrictlyInsideHours(x) ==
    LET h == x \div 3600
        m == (x % 3600) \div 60
        sec == x % 60
    IN  /\ h > 9 \/ (h = 9 /\ m > 30) \/ (h = 9 /\ m = 30 /\ sec > 0)
        /\ h < 16

\* C10: market_open() is true exactly when the Eastern wall-clock time of day
\* is strictly after 09:30:00 and strictly before 16:00:00, on any weekday.
C10_MarketHours ==
    op = "market_open" => (ret.v <=> StrictlyInsideHours(EasternSeconds(req.now)))

C10_Witness ==
    /\ op = "market_open"
    /\ EasternSeconds(req.now) = 9 * 3600 + 30 * 60
    /\ req.now.dow = 0
    /\ ret.v = FALSE

(* The session: every way of constructing the bot, then its operations,      *)
(* while the watchlist at the brokerage changes.                             *)
Watchlists == {<< >>, <<"SOFI">>, <<"SOFI", "AAPL">>, <<"AAPL", "SOFI">>}
WatchlistInputs == {None, Str("bot")}
StockInputs == {None, List(<< >>), List(<<"AAPL">>), List(<<"AAPL", "SOFI">>)}
Closing == Clock(1, TimeOfDay(20, 59, 45), FALSE)

InitSession ==
    /\ NoSession
    /\ gw_watchlist \in Watchlists
    /\ gw_holdings = <<"SOFI">>
    /\ gw_positions = <<[instrument |-> Instrument("SOFI"),
                         created_at |-> Clock(1, TimeOfDay(15, 0, 0), FALSE)]>>
    /\ gw_orders \in Books({"queued"})
    /\ now = Closing

ConstructAny ==
    \E watchlist \in WatchlistInputs, stocklist \in StockInputs :
        Construct(watchlist, stocklist)

ConstructRaisesAny ==
    \E watchlist \in WatchlistInputs, stocklist \in StockInputs :
        ConstructRaises(watchlist, stocklist)

\* the owner of the account edits the watchlist
WatchlistChange ==
    /\ gw_watchlist' \in Watchlists
    /\ gw_watchlist' # gw_watchlist
    /\ Blank("brokerage")
    /\ UNCHANGED <<session, stocks, open_orders, portfolio, portfolio_symbols,
                   gw_orders, gw_holdings, gw_positions, now>>

NextSession ==
    \/ ConstructAny
    \/ ConstructRaisesAny
    \/ Buy
    \/ cancel_all_stock_orders
    \/ update_open_orders
    \/ get_portfolio
    \/ trade
    \/ trade_loop
    \/ WatchlistChange

SpecSession == InitSession /\ [][NextSession]_vars

(* The registry: what enters it and what leaves it, on both sides.           *)
Sell == sell_stock("SOFI", "limit", Num(Scale), Num(Scale), None)

NextRegistry ==
    \/ Main
    \/ Buy
    \/ Sell
    \/ cancel_all_stock_orders
    \/ update_open_orders
    \/ GatewayStep

SpecRegistry == Init /\ [][NextRegistry]_vars

(* The portfolio: every account of up to MaxPositions open positions.        *)
MaxPositions == 2
AccountSymbols == <<"SOFI", "AAPL", "TSLA">>
Range(f) == {f[i] : i \in DOMAIN f}
HoldingLists ==
    {SelectSeq(AccountSymbols, LAMBDA x : x \in S) : S \in SUBSET Range(AccountSymbols)}
Positions ==
    [instrument : {Instrument(x) : x \in Range(AccountSymbols)},
     created_at : {Clock(5, TimeOfDay(2, 0, 0), TRUE)}]
PositionLists == UNION {[1 .. n -> Positions] : n \in 0 .. MaxPositions}

InitPortfolio ==
    /\ NoSession
    /\ gw_watchlist = <<"SOFI", "AAPL">>
    /\ gw_holdings \in HoldingLists
    /\ gw_positions \in PositionLists
    /\ gw_orders = [i \in OrderIds |-> NoOrder]
    /\ now = Noon

\* the account trades: holdings and open positions change at the brokerage
AccountChange ==
    /\ \/ gw_holdings' \in HoldingLists \ {gw_holdings} /\ UNCHANGED gw_positions
       \/ gw_positions' \in PositionLists \ {gw_positions} /\ UNCHANGED gw_holdings
    /\ Blank("brokerage")
    /\ UNCHANGED <<session, stocks, open_orders, portfolio, portfolio_symbols,
                   gw_orders, gw_watchlist, now>>

NextPortfolio ==
    \/ Main
    \/ get_portfolio
    \/ AccountChange

SpecPortfolio == InitPortfolio /\ [][NextPortfolio]_vars

----------------------------------------------------------------------------
TradeOps == {"trade", "trade_loop"}
GatewayCalls(cs) == {i \in 1 .. Len(cs) : cs[i].fn # "sleep"}

(* C11: a step of trade() places no order, cancels none and asks for no      *)
(* order's state: the registry, the portfolio and the stock list are those   *)
(* of before the step, the brokerage's order book is untouched, and the      *)
(* only gateway call of the step is one latest-price query for the stock     *)
(* list, followed, when it answers, by one sleep of SleepSeconds.            *)
C11_TradeOnlyPolls ==
    [][op' \in TradeOps =>
         /\ UNCHANGED <<open_orders, portfolio, portfolio_symbols, stocks, gw_orders>>
         /\ \A i \in GatewayCalls(calls') : calls'[i] = LatestPrice
         /\ Cardinality(GatewayCalls(calls')) <= 1
         /\ (outcome' = Ok /\ session' = "Polling") => calls' = <<LatestPrice, Sleep>>]_vars

C11_Witness ==
    /\ op = "trade_loop"
    /\ session = "Polling"
    /\ calls = <<LatestPrice, Sleep>>
    /\ DictLen(open_orders) = MaxOrders
    /\ stocks # << >>

(* C12: trade() ends at the first evaluation of market_open() that is false: *)
(* called with the market closed it makes no call and returns; a price       *)
(* query is made only in a step whose market_open() held; a polling session  *)
(* comes back to Ready; and an iteration outside a polling session happens   *)
(* only in a call of trade().                                                *)
C12_StopsWhenClosed ==
    /\ [](op \in TradeOps =>
            /\ ~MarketOpen(req.now) => (calls = << >> /\ session = "Ready" /\ outcome = Ok)
            /\ calls # << >> => MarketOpen(req.now))
    /\ (session = "Polling") ~> (session = "Ready")
    /\ [][(op' \in TradeOps /\ calls' # << >> /\ session = "Ready") => op' = "trade"]_vars

C12_Witness ==
    /\ op = "trade_loop"
    /\ session = "Ready"
    /\ outcome = Ok
    /\ calls = << >>
    /\ ~MarketOpen(now)
    /\ ToEastern(now).tod > TimeOfDay(16, 0, 0)
----------------------------------------------------------------------------
Constructed == op = "__init__" /\ outcome = Ok

(* C13: a completed construction leaves as stock list the symbols of the     *)
(* watchlist, in the watchlist's order, when a watchlist name was given,     *)
(* with or without a stocks argument; without a watchlist name it leaves     *)
(* the stocks argument, or the empty list when that is missing too; and no   *)
(* other step changes the stock list.                                        *)
C13_UniverseResolvedOnce ==
    [][/\ Constructed' =>
            stocks' = (IF ~IsNone(req'.watchlist) THEN gw_watchlist
                       ELSE IF ~IsNone(req'.stocks) THEN req'.stocks.v
                       ELSE << >>)
       /\ ~Constructed' => stocks' = stocks]_vars

C13_Witness ==
    /\ Constructed
    /\ ~IsNone(req.watchlist)
    /\ ~IsNone(req.stocks)
    /\ stocks = <<"SOFI", "AAPL">>
    /\ req.stocks.v = <<"AAPL">>
----------------------------------------------------------------------------
Held == Range(gw_holdings)
Positioned == {GwInstrument(gw_positions[i].instrument).symbol : i \in DOMAIN gw_positions}
Stamped(sym) == "created_at" \in DOMAIN DictLookup(portfolio, sym)

(* C14 as stated: get_portfolio returns every symbol of the holdings or of  *)
(* the open positions, with the timestamp exactly on those in both.         *)
C14_EitherResultReturned ==
    op = "get_portfolio" =>
        /\ outcome = Ok
        /\ ret = portfolio
        /\ DictKeySet(portfolio) = Held \cup Positioned
        /\ \A sym \in DictKeySet(portfolio) : Stamped(sym) <=> sym \in Held \cap Positioned

(* C14: get_portfolio returns, and stores as portfolio, exactly the symbols *)
(* of the holdings, with the timestamp on exactly those that also have an   *)
(* open position; a symbol with an open position and no holding is left    *)
(* out, and nothing is raised.                                              *)
C14_HoldingsReturned ==
    op = "get_portfolio" =>
        /\ outcome = Ok
        /\ ret = portfolio
        /\ portfolio_symbols = DictKeys(portfolio)
        /\ DictKeySet(portfolio) = Held
        /\ \A sym \in Held : Stamped(sym) <=> sym \in Positioned

C14_Witness ==
    /\ op = "get_portfolio"
    /\ \E sym \in Held \cap Positioned : Stamped(sym)
    /\ \E sym \in Held \ Positioned : DictHas(portfolio, sym) /\ ~Stamped(sym)
    /\ \E sym \in Positioned \ Held : ~DictHas(portfolio, sym)
----------------------------------------------------------------------------
Removed == DictKeySet(pre) \ DictKeySet(open_orders)
StepsAt(step) == {i \in DOMAIN scan : scan[i] = step}

(* C15: every order an update_open_orders call removes was printed in that  *)
(* call before its del, together with the reject reason when the brokerage  *)
(* rejected it; no other call removes an order; and a submission whose      *)
(* response has no id stores nothing and prints FAILED ORDER.               *)
C15_NothingDroppedSilently ==
    /\ op = "update_open_orders" =>
          \A id \in Removed :
            \E j \in StepsAt(Step("del", id, "")) :
              /\ \E i \in StepsAt(Step("print", id, "order_info")) : i < j
              /\ Line("order_info", id, GwOrderInfo(id).state) \in Range(log)
              /\ GwOrderInfo(id).state = "rejected" =>
                    /\ \E i \in StepsAt(Step("print", id, "Rejected order")) : i < j
                    /\ Line("Rejected order", id, GwOrderInfo(id).reject_reason) \in Range(log)
    /\ op \notin {"update_open_orders", "__init__"} => Removed = {}
    /\ (Submitted /\ IsResponse(resp) /\ ~HasId(resp)) =>
          /\ open_orders = pre
          /\ \E i \in DOMAIN log : log[i].msg = "FAILED ORDER"

C15_Witness ==
    /\ op = "update_open_orders"
    /\ \E id \in Removed : GwOrderInfo(id).state = "rejected"
    /\ \E id \in Removed : GwOrderInfo(id).state = "filled"
    /\ DictLen(open_orders) > 0
----------------------------------------------------------------------------
BotOps == {"buy_stock", "sell_stock", "cancel_stock_order", "cancel_all_stock_orders",
           "update_open_orders", "get_portfolio", "trade", "trade_loop"}
Made(fn) == {i \in DOMAIN calls : calls[i].fn = fn}
Precedes(f, g) == \A i \in Made(f), j \in Made(g) : i < j

(* C16: every construction starts with the login, its one login call; a    *)
(* completed one then asks for the watchlist (when one is named), then for  *)
(* the open orders, then for holdings and positions, and leaves the session *)
(* Ready with the registry holding the brokerage's open orders; a session   *)
(* becomes Ready only so; no method of the bot runs before; polling starts  *)
(* from Ready only and a polling session goes nowhere but on or to Ready.   *)
C16_SessionOrder ==
    /\ [](op = "__init__" => Made("login") = {1})
    /\ [](Constructed =>
            /\ session = "Ready"
            /\ ~IsNone(req.watchlist) <=> Made("get_watchlist_by_name") # {}
            /\ Made("get_all_open_stock_orders") # {}
            /\ Made("build_holdings") # {}
            /\ Made("get_open_stock_positions") # {}
            /\ Precedes("get_watchlist_by_name", "get_all_open_stock_orders")
            /\ Precedes("get_all_open_stock_orders", "build_holdings")
            /\ Precedes("build_holdings", "get_open_stock_positions")
            /\ DictKeySet(open_orders) = {i \in OrderIds : GwOpen(i)}
            /\ DictKeySet(portfolio) = Range(gw_holdings))
    /\ [][(session # "Ready" /\ session' = "Ready") =>
            (session = "Polling" \/ Constructed')]_vars
    /\ [][op' \in BotOps => session \in {"Ready", "Polling"}]_vars
    /\ [][(session # "Polling" /\ session' = "Polling") =>
            (session = "Ready" /\ op' = "trade")]_vars
    /\ [][session = "Polling" => session' \in {"Polling", "Ready"}]_vars

C16_Witness ==
    /\ op = "trade_loop"
    /\ session = "Ready"
    /\ outcome = Ok
    /\ DictLen(open_orders) > 0
    /\ stocks # << >>

----------------------------------------------------------------------------
Queries == SelectSeq(scan, LAMBDA e : e.ev = "query")
Deletions == SelectSeq(scan, LAMBDA e : e.ev = "del")
QueriesOf(id) == {i \in DOMAIN calls : calls[i] = Call("get_stock_order_info", IntVal(id))}

(* C17: an update_open_orders call asks the brokerage about no order twice  *)
(* and deletes nothing before its last query; when it completes it has      *)
(* asked exactly once about every order the registry held at its start, in  *)
(* the registry's order, and deleted exactly the orders that left.          *)
C17_ScanThenRemove ==
    op = "update_open_orders" =>
        /\ \A id \in OrderIds : Cardinality(QueriesOf(id)) <= 1
        /\ Len(calls) = Len(Queries)
        /\ \A i, j \in DOMAIN scan :
              (scan[i].ev = "del" /\ scan[j].ev = "query") => j < i
        /\ outcome = Ok =>
              /\ [i \in DOMAIN Queries |-> Queries[i].id] = DictKeys(pre)
              /\ \A id \in DictKeySet(pre) : Cardinality(QueriesOf(id)) = 1
              /\ {Deletions[i].id : i \in DOMAIN Deletions} = Removed
              /\ Len(Deletions) = Cardinality(Removed)
        /\ outcome # Ok => Deletions = << >>

C17_Witness ==
    /\ op = "update_open_orders"
    /\ outcome = Ok
    /\ Len(calls) = MaxOrders
    /\ Len(Deletions) = 2
    /\ Head(Deletions).id = Head(DictKeys(pre))
----------------------------------------------------------------------------
(* C18: a submission makes at most one gateway call, a placement call; when *)
(* that call raises, the submission ends with the gateway's error, returns  *)
(* nothing, prints nothing and leaves the registry as it was.               *)
C18_PlacementFailureIsFatal ==
    Submitted =>
        /\ Len(calls) <= 1
        /\ \A i \in DOMAIN calls : calls[i].fn \in PlacementFns
        /\ resp = Raised =>
              /\ Len(calls) = 1
              /\ outcome = Error("GatewayError", "")
              /\ ret = None
              /\ log = << >>
              /\ open_orders = pre

C18_Witness ==
    /\ op = "buy_stock"
    /\ resp = Raised
    /\ req.order_type = "fractional_price"
    /\ DictLen(pre) > 0

----------------------------------------------------------------------------
(* C19: an update_open_orders call in which a state query raises ends with  *)
(* the gateway's error and leaves the registry exactly as it was, whatever  *)
(* the queries before it answered.                                          *)
C19_FailedScanRemovesNothing ==
    (op = "update_open_orders" /\ outcome # Ok) =>
        /\ outcome = Error("GatewayError", "")
        /\ open_orders = pre
        /\ Deletions = << >>

C19_Witness ==
    /\ op = "update_open_orders"
    /\ outcome = Error("GatewayError", "")
    /\ Len(calls) = MaxOrders
    /\ \E i \in DOMAIN log : log[i].msg = "order_info" /\ log[i].info \in Terminal
    /\ \E i \in DOMAIN log : log[i].msg = "Rejected order"
----------------------------------------------------------------------------
(* C20: every entry of the registry is stored under the id its record       *)
(* carries, and no id has two entries; a submission whose response has an   *)
(* id leaves the registry with the keys of before and that id, the response *)
(* taking the place of the record of an id already there, and any other     *)
(* submission leaves the registry as it was; update_open_orders adds no     *)
(* key; and no other call after the construction changes the keys.          *)
C20_RegistryKeys ==
    /\ \A i \in DOMAIN open_orders :
          HasId(open_orders[i].v) /\ open_orders[i].k = open_orders[i].v.id
    /\ Cardinality(DictKeySet(open_orders)) = DictLen(open_orders)
    /\ Submitted =>
          IF IsResponse(resp) /\ HasId(resp)
          THEN /\ DictKeySet(open_orders) = DictKeySet(pre) \cup {resp.id}
               /\ DictLen(open_orders) <= DictLen(pre) + 1
               /\ DictLookup(open_orders, resp.id) = ret
               /\ resp.id \in DictKeySet(pre) => DictLen(open_orders) = DictLen(pre)
          ELSE open_orders = pre
    /\ op = "update_open_orders" => DictKeySet(open_orders) \subseteq DictKeySet(pre)
    /\ (~Submitted /\ op \notin {"update_open_orders", "__init__"}) =>
          DictKeySet(open_orders) = DictKeySet(pre)

C20_Witness ==
    /\ op = "buy_stock"
    /\ HasId(resp)
    /\ resp.id \in DictKeySet(pre)
    /\ DictLen(pre) = 2
    /\ DictLen(open_orders) = 2
    /\ DictLookup(pre, resp.id) # DictLookup(open_orders, resp.id)
====
